---------------------------- MODULE Spec2Model ----------------------------
(***************************************************************************)
(* Model of the iCloud Calendar MCP server (src/src/index.ts).             *)
(*                                                                         *)
(* A string is a sequence of tokens.  The characters the program treats    *)
(* specially (double quote, backslash, blank, newline, the characters of   *)
(* the two delimiters) are one token each; a run of fixed template text    *)
(* may be written as one longer token.                                     *)
(***************************************************************************)
EXTENDS Integers, Sequences, FiniteSets, TLC

\* ------------------------------------------------------------------ bounds
MaxPending == 2   \* requests the pipelined client may have outstanding
MaxLen     == 4   \* longest title enumerated exhaustively (SpecEscape)
MaxCals    == 2   \* most calendars the application enumerates in one reply
MaxEvents  == 2   \* most events the application serializes in one reply

\* ----------------------------------------------------------------- strings
DQ == "\""
BS == "\\"
SP == " "
NL == "\n"

Digit == <<"0", "1", "2", "3", "4", "5", "6", "7", "8", "9">>

RECURSIVE NatString(_)
NatString(n) ==
  IF n < 10 THEN <<Digit[n + 1]>>
  ELSE NatString(n \div 10) \o <<Digit[(n % 10) + 1]>>

\* String(number) / `${number}` for an integer.
NumberString(n) == IF n < 0 THEN <<"-">> \o NatString(-n) ELSE NatString(n)

\* Number.prototype.toString().padStart(2, "0") for a natural number.
PadStart2(n) == IF n < 10 THEN <<"0">> \o NatString(n) ELSE NatString(n)

IsSpace(c) == c \in {SP, NL}

RECURSIVE TrimStart(_)
TrimStart(s) ==
  IF s # <<>> /\ IsSpace(Head(s)) THEN TrimStart(Tail(s)) ELSE s

RECURSIVE TrimEnd(_)
TrimEnd(s) ==
  IF s # <<>> /\ IsSpace(s[Len(s)]) THEN TrimEnd(SubSeq(s, 1, Len(s) - 1)) ELSE s

\* String.prototype.trim
Trim(s) == TrimEnd(TrimStart(s))

\* The first position where d starts in s; 0 when d does not occur.
IndexOf(s, d) ==
  LET at == {i \in 1..Len(s) : i + Len(d) - 1 <= Len(s)
                               /\ SubSeq(s, i, i + Len(d) - 1) = d}
  IN IF at = {} THEN 0 ELSE CHOOSE i \in at : \A j \in at : i <= j

\* String.prototype.split(d) for a non-empty separator d: the pieces between
\* the leftmost non-overlapping occurrences of d.
RECURSIVE Split(_, _)
Split(s, d) ==
  LET i == IndexOf(s, d)
  IN IF i = 0 THEN <<s>>
     ELSE <<SubSeq(s, 1, i - 1)>> \o Split(SubSeq(s, i + Len(d), Len(s)), d)

\* Array.prototype.join(d), and AppleScript's `list as text` under the text
\* item delimiters d.
RECURSIVE Join(_, _)
Join(parts, d) ==
  IF parts = <<>> THEN <<>>
  ELSE IF Len(parts) = 1 THEN parts[1]
       ELSE parts[1] \o d \o Join(Tail(parts), d)

\* String.prototype.replace(/c/g, rep) for a one-character pattern c.
RECURSIVE ReplaceAll(_, _, _)
ReplaceAll(s, c, rep) ==
  IF s = <<>> THEN <<>>
  ELSE (IF Head(s) = c THEN rep ELSE <<Head(s)>>) \o ReplaceAll(Tail(s), c, rep)

\* Mutant: the two replacements in the opposite order, so the backslash that
\* escapes a quote is itself doubled.
escapeQuotesFirst(str) ==
  ReplaceAll(ReplaceAll(str, DQ, <<BS, DQ>>), BS, <<BS, BS>>)

escapeForAppleScript(str) ==
  ReplaceAll(ReplaceAll(str, BS, <<BS, BS>>), DQ, <<BS, DQ>>)

\* --------------------------------------------------------------------- dates
\* new Date(isoDate) read through getDate/getMonth/getFullYear/getHours/
\* getMinutes: a date is the record of its local-time fields, or Invalid Date
\* (every getter NaN) for text that does not parse and for undefined.
\* `empty` marks the empty string "", which is falsy and parses to Invalid Date.
InvalidDate ==
  [valid |-> FALSE, empty |-> FALSE, y |-> 0, mo |-> 0, d |-> 0, h |-> 0, mi |-> 0, s |-> 0]

EmptyDate ==
  [valid |-> FALSE, empty |-> TRUE, y |-> 0, mo |-> 0, d |-> 0, h |-> 0, mi |-> 0, s |-> 0]

IsoDate(y, mo, d, h, mi, s) ==
  [valid |-> TRUE, empty |-> FALSE, y |-> y, mo |-> mo, d |-> d, h |-> h, mi |-> mi, s |-> s]

NaN == <<"NaN">>

formatDateForAppleScript(date) ==
  IF date.valid
  THEN NatString(date.d) \o <<"/">> \o NatString(date.mo) \o <<"/">>
         \o NatString(date.y) \o <<SP>> \o PadStart2(date.h) \o <<":">>
         \o PadStart2(date.mi) \o <<":", "0", "0">>
  ELSE NaN \o <<"/">> \o NaN \o <<"/">> \o NaN \o <<SP>> \o NaN \o <<":">>
         \o NaN \o <<":", "0", "0">>

\* ------------------------------------------------------------------- scripts
\* A rendered script is a sequence of segments: fixed or computed text, and
\* double-quoted literals "${...}" whose content is what the template put
\* between the quotes.  slot names the template expression that filled the
\* literal ("" for a literal written out in the template).
Text(tokens) == [kind |-> "text", slot |-> "", s |-> tokens]

Quoted(slot, content) == [kind |-> "quoted", slot |-> slot, s |-> content]

\* Argument mappings: a record holding the supplied fields only.
Has(args, f) == f \in DOMAIN args

\* `x ? ... : ...` for an optional string argument: supplied and non-empty.
TruthyString(args, f) == Has(args, f) /\ args[f] # <<>>

\* `x ? ... : ...` for an optional date string: supplied and non-empty.
TruthyDate(args, f) == Has(args, f) /\ ~args[f].empty

\* new Date(args[f]): undefined gives Invalid Date.
DateArg(args, f) == IF Has(args, f) THEN args[f] ELSE InvalidDate

TildeDelim == <<"~", "~", "~">>
PipeDelim  == <<"|", "|", "|">>
Kalender   == <<"K", "a", "l", "e", "n", "d", "e", "r">>

\* runAppleScript's launchScript around the operation's script.
LaunchScript(script) ==
  <<Text(<<"tell application ">>), Quoted("", <<"Calendar">>),
    Text(<<NL, "launch", NL, "end tell", NL, "delay 0.5", NL>>)>> \o script

listCalendarsScript ==
  <<Text(<<"tell application ">>), Quoted("", <<"Calendar">>),
    Text(<<NL, "set calNames to name of calendars", NL,
           "set AppleScript's text item delimiters to ">>),
    Quoted("", TildeDelim),
    Text(<<NL, "return calNames as text", NL, "end tell">>)>>

listEventsCalendarPart(args) ==
  IF TruthyString(args, "calendarName")
  THEN <<Text(<<"set cals to {calendar ">>),
         Quoted("calendarName", args.calendarName),
         Text(<<"}">>)>>
  ELSE <<Text(<<"set cals to calendars">>)>>

listEventsScript(args) ==
  <<Text(<<"tell application ">>), Quoted("", <<"Calendar">>),
    Text(<<NL, "set startD to date ">>),
    Quoted("startDate", formatDateForAppleScript(DateArg(args, "startDate"))),
    Text(<<NL, "set endD to date ">>),
    Quoted("endDate", formatDateForAppleScript(DateArg(args, "endDate"))),
    Text(<<NL, "set eventList to {}", NL>>)>>
  \o listEventsCalendarPart(args)
  \o <<Text(<<NL, "repeat with c in cals", NL,
              "set calEvents to (every event of c whose start date >= startD and start date <= endD)",
              NL, "set eventInfo to eventSummary & ">>),
       Quoted("", PipeDelim),
       Text(<<" & (eventStart as string) & ">>), Quoted("", PipeDelim),
       Text(<<" & (eventEnd as string) & ">>), Quoted("", PipeDelim),
       Text(<<" & eventLoc & ">>), Quoted("", PipeDelim),
       Text(<<" & calName & ">>), Quoted("", PipeDelim),
       Text(<<" & eventAllDay", NL, "set end of eventList to eventInfo", NL,
              "end repeat", NL,
              "set AppleScript's text item delimiters to ">>),
       Quoted("", TildeDelim),
       Text(<<NL, "return eventList as text", NL, "end tell">>)>>

RECURSIVE AlarmStatements(_)
AlarmStatements(alarms) ==
  IF alarms = <<>> THEN <<>>
  ELSE <<Text(<<NL, "make new display alarm at end of display alarms of newEvent with properties {trigger interval:">>
              \o NumberString(Head(alarms)) \o <<"}">>)>>
       \o AlarmStatements(Tail(alarms))

\* createEvent's script; evaluated only where escapeForAppleScript does not
\* throw (title supplied).
createEventScript(args) ==
  LET targetCalendar ==
        IF TruthyString(args, "calendarName") THEN args.calendarName ELSE Kalender
      locationProp ==
        IF TruthyString(args, "location")
        THEN <<Text(<<", location:">>),
               Quoted("location", escapeForAppleScript(args.location))>>
        ELSE <<>>
      descProp ==
        IF TruthyString(args, "description")
        THEN <<Text(<<", description:">>),
               Quoted("description", escapeForAppleScript(args.description))>>
        ELSE <<>>
      allDayProp ==
        IF Has(args, "isAllDay") /\ args.isAllDay
        THEN <<Text(<<", allday event:true">>)>> ELSE <<>>
      alarmCommands ==
        IF Has(args, "alarms") /\ Len(args.alarms) > 0
        THEN AlarmStatements(args.alarms) ELSE <<>>
  IN <<Text(<<"tell application ">>), Quoted("", <<"Calendar">>),
       Text(<<NL, "tell calendar ">>),
       Quoted("calendarName", escapeForAppleScript(targetCalendar)),
       Text(<<NL, "set newEvent to make new event with properties {summary:">>),
       Quoted("title", escapeForAppleScript(args.title)),
       Text(<<", start date:date ">>),
       Quoted("startDate", formatDateForAppleScript(DateArg(args, "startDate"))),
       Text(<<", end date:date ">>),
       Quoted("endDate", formatDateForAppleScript(DateArg(args, "endDate")))>>
     \o allDayProp \o locationProp \o descProp
     \o <<Text(<<"}">>)>> \o alarmCommands
     \o <<Text(<<NL, "return ">>), Quoted("", <<"created">>),
          Text(<<NL, "end tell", NL, "end tell">>)>>

\* Mutant: location is tested for truthiness like newTitle, so an empty
\* location is dropped.
setPropertiesTruthyLocation(args) ==
  (IF TruthyString(args, "newTitle")
   THEN <<<<Text(<<NL, "set summary of targetEvent to ">>),
            Quoted("newTitle", escapeForAppleScript(args.newTitle))>>>>
   ELSE <<>>)
  \o (IF TruthyDate(args, "startDate")
      THEN <<<<Text(<<NL, "set start date of targetEvent to date ">>),
               Quoted("startDate", formatDateForAppleScript(args.startDate))>>>>
      ELSE <<>>)
  \o (IF TruthyDate(args, "endDate")
      THEN <<<<Text(<<NL, "set end date of targetEvent to date ">>),
               Quoted("endDate", formatDateForAppleScript(args.endDate))>>>>
      ELSE <<>>)
  \o (IF TruthyString(args, "location")
      THEN <<<<Text(<<NL, "set location of targetEvent to ">>),
               Quoted("location", escapeForAppleScript(args.location))>>>>
      ELSE <<>>)
  \o (IF Has(args, "description")
      THEN <<<<Text(<<NL, "set description of targetEvent to ">>),
               Quoted("description", escapeForAppleScript(args.description))>>>>
      ELSE <<>>)

\* updateEvent's setProperties: one assignment statement per pushed entry.
setProperties(args) ==
  (IF TruthyString(args, "newTitle")
   THEN <<<<Text(<<NL, "set summary of targetEvent to ">>),
            Quoted("newTitle", escapeForAppleScript(args.newTitle))>>>>
   ELSE <<>>)
  \o (IF TruthyDate(args, "startDate")
      THEN <<<<Text(<<NL, "set start date of targetEvent to date ">>),
               Quoted("startDate", formatDateForAppleScript(args.startDate))>>>>
      ELSE <<>>)
  \o (IF TruthyDate(args, "endDate")
      THEN <<<<Text(<<NL, "set end date of targetEvent to date ">>),
               Quoted("endDate", formatDateForAppleScript(args.endDate))>>>>
      ELSE <<>>)
  \o (IF Has(args, "location")
      THEN <<<<Text(<<NL, "set location of targetEvent to ">>),
               Quoted("location", escapeForAppleScript(args.location))>>>>
      ELSE <<>>)
  \o (IF Has(args, "description")
      THEN <<<<Text(<<NL, "set description of targetEvent to ">>),
               Quoted("description", escapeForAppleScript(args.description))>>>>
      ELSE <<>>)

RECURSIVE Concat(_)
Concat(seqs) == IF seqs = <<>> THEN <<>> ELSE Head(seqs) \o Concat(Tail(seqs))

\* updateEvent's script; evaluated only where setProperties is non-empty and
\* calendarName and eventSummary are supplied.
updateEventScript(args) ==
  <<Text(<<"tell application ">>), Quoted("", <<"Calendar">>),
    Text(<<NL, "tell calendar ">>),
    Quoted("calendarName", escapeForAppleScript(args.calendarName)),
    Text(<<NL, "set targetEvent to (first event whose summary is ">>),
    Quoted("eventSummary", escapeForAppleScript(args.eventSummary)),
    Text(<<")">>)>>
  \o Concat(setProperties(args))
  \o <<Text(<<NL, "return ">>), Quoted("", <<"success">>),
       Text(<<NL, "end tell", NL, "end tell">>)>>

deleteEventScript(args) ==
  <<Text(<<"tell application ">>), Quoted("", <<"Calendar">>),
    Text(<<NL, "tell calendar ">>),
    Quoted("calendarName", escapeForAppleScript(args.calendarName)),
    Text(<<NL, "set targetEvent to (first event whose summary is ">>),
    Quoted("eventSummary", escapeForAppleScript(args.eventSummary)),
    Text(<<")", NL, "delete targetEvent", NL, "return ">>),
    Quoted("", <<"success">>),
    Text(<<NL, "end tell", NL, "end tell">>)>>

\* ------------------------------------------------------------------ registry
\* The ListTools handler's reply: name, declared properties with their types,
\* and the required list of each descriptor (the descriptions are prose).
\* Mutant: create_event declared without its alarms property.
ToolsWithoutAlarms ==
  <<[name |-> "list_calendars", properties |-> {}, required |-> <<>>],
    [name |-> "list_events",
     properties |-> {<<"startDate", "string">>, <<"endDate", "string">>,
                     <<"calendarName", "string">>},
     required |-> <<"startDate", "endDate">>],
    [name |-> "create_event",
     properties |-> {<<"title", "string">>, <<"startDate", "string">>,
                     <<"endDate", "string">>, <<"calendarName", "string">>,
                     <<"isAllDay", "boolean">>, <<"location", "string">>,
                     <<"description", "string">>},
     required |-> <<"title", "startDate", "endDate">>],
    [name |-> "update_event",
     properties |-> {<<"eventSummary", "string">>, <<"calendarName", "string">>,
                     <<"newTitle", "string">>, <<"startDate", "string">>,
                     <<"endDate", "string">>, <<"location", "string">>,
                     <<"description", "string">>},
     required |-> <<"eventSummary", "calendarName">>],
    [name |-> "delete_event",
     properties |-> {<<"eventSummary", "string">>, <<"calendarName", "string">>},
     required |-> <<"eventSummary", "calendarName">>]>>

Tools ==
  <<[name |-> "list_calendars", properties |-> {}, required |-> <<>>],
    [name |-> "list_events",
     properties |-> {<<"startDate", "string">>, <<"endDate", "string">>,
                     <<"calendarName", "string">>},
     required |-> <<"startDate", "endDate">>],
    [name |-> "create_event",
     properties |-> {<<"title", "string">>, <<"startDate", "string">>,
                     <<"endDate", "string">>, <<"calendarName", "string">>,
                     <<"isAllDay", "boolean">>, <<"location", "string">>,
                     <<"description", "string">>, <<"alarms", "array">>},
     required |-> <<"title", "startDate", "endDate">>],
    [name |-> "update_event",
     properties |-> {<<"eventSummary", "string">>, <<"calendarName", "string">>,
                     <<"newTitle", "string">>, <<"startDate", "string">>,
                     <<"endDate", "string">>, <<"location", "string">>,
                     <<"description", "string">>},
     required |-> <<"eventSummary", "calendarName">>],
    [name |-> "delete_event",
     properties |-> {<<"eventSummary", "string">>, <<"calendarName", "string">>},
     required |-> <<"eventSummary", "calendarName">>]>>

\* ------------------------------------------------------------ reply parsing
\* parts[k] || "" (k counted from 1 here).
PartOr(parts, k) == IF k <= Len(parts) THEN parts[k] ELSE <<>>

TrueText == <<"t", "r", "u", "e">>
FalseText == <<"f", "a", "l", "s", "e">>

\* Mutant: no early return for an empty reply, so "" splits into one blank item.
ParseCalendarsNoEmptyCheck(result) ==
  LET items == Split(result, TildeDelim)
  IN [i \in 1..Len(items) |-> [name |-> Trim(items[i]), id |-> NatString(i - 1)]]

\* listCalendars after runAppleScript returned `result`.
ParseCalendars(result) ==
  IF result = <<>> THEN <<>>
  ELSE LET items == Split(result, TildeDelim)
       IN [i \in 1..Len(items) |->
             [name |-> Trim(items[i]), id |-> NatString(i - 1)]]

EventRecord(item, index) ==
  LET parts == Split(item, PipeDelim)
  IN [id |-> NatString(index),
      summary |-> PartOr(parts, 1),
      startDate |-> PartOr(parts, 2),
      endDate |-> PartOr(parts, 3),
      location |-> PartOr(parts, 4),
      description |-> <<>>,
      calendar |-> PartOr(parts, 5),
      isAllDay |-> (PartOr(parts, 6) = TrueText)]

\* Mutant: no early return for an empty reply.
ParseEventsNoEmptyCheck(result) ==
  LET items == Split(result, TildeDelim)
  IN [i \in 1..Len(items) |-> EventRecord(items[i], i - 1)]

\* listEvents after runAppleScript returned `result`.
ParseEvents(result) ==
  IF result = <<>> THEN <<>>
  ELSE LET items == Split(result, TildeDelim)
       IN [i \in 1..Len(items) |-> EventRecord(items[i], i - 1)]

\* ----------------------------------------------------------------- responses
Result(payload) == [kind |-> "result", payload |-> payload]

\* A thrown McpError(code, message), which the SDK sends as the error reply.
McpError(code, message) == [kind |-> "error", code |-> code, message |-> message]

NoResponse == [kind |-> "none"]

\* An optional field of an object literal: JSON.stringify leaves out a field
\* whose value is undefined.
Field(f, args) == IF Has(args, f) THEN f :> args[f] ELSE <<>>

\* The outcome of the handler's synchronous part: it either starts the
\* interpreter on a script and suspends, or settles with a response.
\* Mutant: the subprocess is started but not awaited, and the handler settles
\* at once.
SpawnStepNoAwait(script) ==
  [spawn |-> TRUE, script |-> script, response |-> Result(<<>>)]

SpawnStep(script) == [spawn |-> TRUE, script |-> script, response |-> NoResponse]

ReturnStep(response) == [spawn |-> FALSE, script |-> <<>>, response |-> response]

\* The handler's catch for an error that is no McpError (here a TypeError
\* from destructuring undefined, or from undefined.replace).
TypeErrorText == <<"TypeError">>

ThrowTypeError == ReturnStep(McpError("InternalError", TypeErrorText))

\* Mutant: the default branch throws a plain Error, which the catch wraps.
unknownToolStepPlainError(q) ==
  ReturnStep(McpError("InternalError", <<"Unknown tool: ", q.name>>))

\* switch default.
unknownToolStep(q) ==
  ReturnStep(McpError("MethodNotFound", <<"Unknown tool: ", q.name>>))

listCalendarsStep(q) == SpawnStep(listCalendarsScript)

listEventsStep(q) ==
  IF ~q.hasArgs THEN ThrowTypeError ELSE SpawnStep(listEventsScript(q.args))

createEventStep(q) ==
  IF ~q.hasArgs \/ ~Has(q.args, "title") THEN ThrowTypeError
  ELSE SpawnStep(createEventScript(q.args))

UpdatedPayload(args) ==
  [success |-> TRUE, message |-> <<"Event updated">>] @@ Field("eventSummary", args)

\* Mutant: no early return when setProperties is empty.
updateEventStepAlwaysRuns(q) ==
  IF ~q.hasArgs THEN ThrowTypeError
  ELSE IF ~Has(q.args, "calendarName") \/ ~Has(q.args, "eventSummary")
       THEN ThrowTypeError
       ELSE SpawnStep(updateEventScript(q.args))

updateEventStep(q) ==
  IF ~q.hasArgs THEN ThrowTypeError
  ELSE IF Len(setProperties(q.args)) = 0
       THEN ReturnStep(Result(UpdatedPayload(q.args)))
       ELSE IF ~Has(q.args, "calendarName") \/ ~Has(q.args, "eventSummary")
            THEN ThrowTypeError
            ELSE SpawnStep(updateEventScript(q.args))

deleteEventStep(q) ==
  IF ~q.hasArgs \/ ~Has(q.args, "calendarName") \/ ~Has(q.args, "eventSummary")
  THEN ThrowTypeError
  ELSE SpawnStep(deleteEventScript(q.args))

\* ------------------------------------------------------------- the subprocess
\* What execFile reports when osascript ends: ok with its stdout, or a failure
\* (non-zero exit, or killed at the timeout) with stderr and message.  app is
\* what the Calendar application held when the script ran.
NoFacts == [names |-> <<>>, events |-> <<>>, found |-> FALSE]

ExecOk(stdout, app) ==
  [ok |-> TRUE, how |-> "exit0", stdout |-> stdout, stderr |-> <<>>,
   message |-> <<>>, app |-> app]

ExecFail(how, stderr, message, app) ==
  [ok |-> FALSE, how |-> how, stdout |-> <<>>, stderr |-> stderr,
   message |-> message, app |-> app]

NoExit == [ok |-> FALSE, how |-> "none", stdout |-> <<>>, stderr |-> <<>>,
           message |-> <<>>, app |-> NoFacts]

GenericErrorText == <<"AppleScript error">>

\* Mutant: the failure message preferred over stderr.
ExecErrorTextMessageFirst(child) ==
  IF child.message # <<>> THEN child.message
  ELSE IF child.stderr # <<>> THEN child.stderr
       ELSE GenericErrorText

\* execError.stderr || execError.message || "AppleScript error"
ExecErrorText(child) ==
  IF child.stderr # <<>> THEN child.stderr
  ELSE IF child.message # <<>> THEN child.message
       ELSE GenericErrorText

\* Mutant: the escaped title returned as the identifier.
createEventReturnEscaped(args, result) == escapeForAppleScript(args.title)

\* createEvent's return value after runAppleScript returned `result`.
createEventReturn(args, result) == args.title

\* The rest of the handler once the subprocess has ended: runAppleScript
\* returns stdout.trim() or throws, the operation parses, the handler wraps.
Complete(q, child) ==
  IF ~child.ok THEN McpError("InternalError", ExecErrorText(child))
  ELSE LET result == Trim(child.stdout)
       IN CASE q.name = "list_calendars" -> Result(ParseCalendars(result))
            [] q.name = "list_events" -> Result(ParseEvents(result))
            [] q.name = "create_event" ->
                 Result([success |-> TRUE, message |-> <<"Event created">>,
                         eventId |-> createEventReturn(q.args, result)])
            [] q.name = "update_event" -> Result(UpdatedPayload(q.args))
            [] OTHER ->
                 Result([success |-> TRUE, message |-> <<"Event deleted">>]
                          @@ Field("eventSummary", q.args))

\* ------------------------------------------------ the Calendar application
SeqsUpTo(S, n) == UNION {[1..k -> S] : k \in 0..n}

Work == <<"W", "o", "r", "k">>
Home == <<"H", "o", "m", "e">>

\* Calendar names the application may hold: plain, with a leading blank, a
\* tilde, the empty name.
CalNames == {Work, Home, <<SP, "W">>, <<"~">>, <<>>}

NameLists == SeqsUpTo(CalNames, MaxCals)

\* `boolean as text`
BoolText(b) == IF b THEN TrueText ELSE FalseText

Event(summary, start, end, loc, calName, allday) ==
  [summary |-> summary, start |-> start, end |-> end, loc |-> loc,
   calName |-> calName, allday |-> allday]

EventPool ==
  {Event(<<"S">>, <<"Friday, 1. March 2024 at 09:00:00">>,
         <<"Friday, 1. March 2024 at 09:15:00">>, <<>>, Work, FALSE),
   Event(<<"A", "~", "~", "~", "B">>, <<"Saturday, 2. March 2024 at 00:00:00">>,
         <<"Sunday, 3. March 2024 at 00:00:00">>, <<"R">>, Home, TRUE),
   Event(<<"L">>, <<"Monday, 4. March 2024 at 12:00:00">>,
         <<"Monday, 4. March 2024 at 13:00:00">>, <<"x", "|", "|", "|", "y">>,
         Work, FALSE)}

EventLists == SeqsUpTo(EventPool, MaxEvents)

\* The eventInfo line of the listEvents script.
EventInfo(e) ==
  e.summary \o PipeDelim \o e.start \o PipeDelim \o e.end \o PipeDelim
    \o e.loc \o PipeDelim \o e.calName \o PipeDelim \o BoolText(e.allday)

\* osascript prints the script's result and a newline.
Printed(text) == text \o <<NL>>

StderrText == <<"execution error: Calendar got an error">>
CantGetText == <<"execution error: Can't get object">>
FailMessage == <<"Command failed: osascript -e">>

\* Failures any script can meet: a non-zero exit (no automation permission,
\* a script error) or the 30 s timeout, with or without diagnostic text.
Faults ==
  {ExecFail(how, e, m, NoFacts) :
     how \in {"nonzero", "timeout"}, e \in {<<>>, StderrText},
     m \in {<<>>, FailMessage}}

\* `tell calendar "X"` / `first event whose summary is "Y"` raises when the
\* application holds no such object.
NotFound ==
  ExecFail("nonzero", CantGetText, FailMessage \o CantGetText,
           [names |-> <<>>, events |-> <<>>, found |-> FALSE])

Found == [names |-> <<>>, events |-> <<>>, found |-> TRUE]

\* What the subprocess started for request q can report.
Outcomes(q) ==
  Faults \cup
  CASE q.name = "list_calendars" ->
         {ExecOk(Printed(Join(names, TildeDelim)),
                 [names |-> names, events |-> <<>>, found |-> TRUE]) :
            names \in NameLists}
    [] q.name = "list_events" ->
         {ExecOk(Printed(Join([i \in 1..Len(evs) |-> EventInfo(evs[i])], TildeDelim)),
                 [names |-> <<>>, events |-> evs, found |-> TRUE]) :
            evs \in EventLists}
    [] q.name = "create_event" ->
         {ExecOk(Printed(<<"created">>), Found), NotFound}
    [] OTHER ->
         {ExecOk(Printed(<<"success">>), Found), NotFound}

\* ------------------------------------------------------------------- inputs
None == <<>>
Some(v) == <<v>>
\* The argument mapping holding field f when the option o supplies it.
Opt(f, o) == IF o = None THEN <<>> ELSE f :> o[1]

Plain == <<"S">>
WithQuote == <<"a", DQ, "b">>
WithBoth == <<BS, DQ>>

D1 == IsoDate(2024, 3, 1, 9, 0, 0)
D2 == IsoDate(2024, 12, 31, 23, 15, 30)

CallTool(name, args) ==
  [method |-> "tools/call", name |-> name, hasArgs |-> TRUE, args |-> args]

\* request.params.arguments left out.
CallToolNoArgs(name) ==
  [method |-> "tools/call", name |-> name, hasArgs |-> FALSE, args |-> <<>>]

ListToolsRequest ==
  [method |-> "tools/list", name |-> "", hasArgs |-> FALSE, args |-> <<>>]

NoRequest == [method |-> "none", name |-> "", hasArgs |-> FALSE, args |-> <<>>]

ToolNames ==
  {"list_calendars", "list_events", "create_event", "update_event", "delete_event"}

UnknownNames == {"get_event", "", "listCalendars", "DELETE_EVENT"}

ListEventsArgs ==
  {Opt("startDate", s) @@ Opt("endDate", e) @@ Opt("calendarName", c) :
     s \in {None, Some(D1)}, e \in {Some(D2), Some(InvalidDate)},
     c \in {None, Some(<<>>), Some(Plain), Some(WithQuote)}}

CreateEventArgs ==
  {Opt("title", ti) @@ Opt("startDate", Some(D1)) @@ Opt("endDate", Some(D2))
     @@ Opt("calendarName", c) @@ Opt("location", l) @@ Opt("description", d)
     @@ Opt("isAllDay", a) @@ Opt("alarms", al) :
     ti \in {None, Some(Plain), Some(WithQuote), Some(WithBoth)},
     c \in {None, Some(WithQuote)},
     l \in {None, Some(<<>>), Some(WithQuote)},
     d \in {None, Some(WithBoth)},
     a \in {None, Some(TRUE), Some(FALSE)},
     al \in {None, Some(<<>>), Some(<<-15, 1440>>)}}

UpdateEventArgs ==
  {Opt("eventSummary", k[1]) @@ Opt("calendarName", k[2]) @@ Opt("newTitle", n)
     @@ Opt("startDate", s) @@ Opt("endDate", e) @@ Opt("location", l)
     @@ Opt("description", d) :
     k \in {<<Some(Plain), Some(Work)>>, <<Some(WithQuote), Some(WithBoth)>>,
            <<None, Some(Work)>>},
     n \in {None, Some(<<>>), Some(WithQuote)},
     s \in {None, Some(EmptyDate), Some(D1)},
     e \in {None, Some(EmptyDate), Some(InvalidDate), Some(D2)},
     l \in {None, Some(<<>>), Some(WithQuote)},
     d \in {None, Some(<<>>), Some(Plain)}}

DeleteEventArgs ==
  {Opt("eventSummary", s) @@ Opt("calendarName", c) :
     s \in {None, Some(Plain), Some(WithQuote)},
     c \in {None, Some(Work), Some(WithBoth)}}

\* The requests a client sends one at a time.
Requests ==
  {ListToolsRequest}
  \cup {CallToolNoArgs(n) : n \in ToolNames \cup UnknownNames}
  \cup {CallTool("list_calendars", <<>>)}
  \cup {CallTool("list_events", a) : a \in ListEventsArgs}
  \cup {CallTool("create_event", a) : a \in CreateEventArgs}
  \cup {CallTool("update_event", a) : a \in UpdateEventArgs}
  \cup {CallTool("delete_event", a) : a \in DeleteEventArgs}
  \cup {CallTool(n, a) : n \in UnknownNames,
          a \in {<<>>, Opt("title", Some(Plain)),
                 Opt("eventSummary", Some(Plain)) @@ Opt("calendarName", Some(Work))}}

\* --------------------------------------------------------------------- state
VARIABLES
  pc,       \* per request slot: "idle", "awaiting" (suspended at the await), "done"
  req,      \* the request being handled in the slot
  script,   \* the script handed to osascript for it (<<>>: none)
  running,  \* whether its osascript subprocess is in flight
  spawned,  \* how many subprocesses were started for it
  child,    \* what execFile reported when the subprocess ended
  resp      \* the handler's result or thrown error

vars == <<pc, req, script, running, spawned, child, resp>>

Slots == 1..MaxPending

Init ==
  /\ pc = [r \in Slots |-> "idle"]
  /\ req = [r \in Slots |-> NoRequest]
  /\ script = [r \in Slots |-> <<>>]
  /\ running = [r \in Slots |-> FALSE]
  /\ spawned = [r \in Slots |-> 0]
  /\ child = [r \in Slots |-> NoExit]
  /\ resp = [r \in Slots |-> NoResponse]

\* A request arrives and its handler runs up to its first await or its end.
Begin(r, q, step) ==
  /\ pc[r] = "idle"
  /\ req' = [req EXCEPT ![r] = q]
  /\ pc' = [pc EXCEPT ![r] = IF step.spawn THEN "awaiting" ELSE "done"]
  /\ script' = [script EXCEPT ![r] =
                  IF step.spawn THEN LaunchScript(step.script) ELSE <<>>]
  /\ running' = [running EXCEPT ![r] = step.spawn]
  /\ spawned' = [spawned EXCEPT ![r] = IF step.spawn THEN 1 ELSE 0]
  /\ resp' = [resp EXCEPT ![r] = step.response]
  /\ UNCHANGED child

ListTools(r, q) ==
  /\ q.method = "tools/list"
  /\ Begin(r, q, ReturnStep(Result(Tools)))

CallListCalendars(r, q) ==
  /\ q.method = "tools/call" /\ q.name = "list_calendars"
  /\ Begin(r, q, listCalendarsStep(q))

CallListEvents(r, q) ==
  /\ q.method = "tools/call" /\ q.name = "list_events"
  /\ Begin(r, q, listEventsStep(q))

CallCreateEvent(r, q) ==
  /\ q.method = "tools/call" /\ q.name = "create_event"
  /\ Begin(r, q, createEventStep(q))

CallUpdateEvent(r, q) ==
  /\ q.method = "tools/call" /\ q.name = "update_event"
  /\ Begin(r, q, updateEventStep(q))

CallDeleteEvent(r, q) ==
  /\ q.method = "tools/call" /\ q.name = "delete_event"
  /\ Begin(r, q, deleteEventStep(q))

CallUnknownTool(r, q) ==
  /\ q.method = "tools/call" /\ q.name \notin ToolNames
  /\ Begin(r, q, unknownToolStep(q))

\* The subprocess ends (exit or timeout); the suspended handler resumes and
\* settles.
SubprocessExit(r) ==
  /\ pc[r] = "awaiting"
  /\ running[r]
  /\ \E c \in Outcomes(req[r]) :
       /\ child' = [child EXCEPT ![r] = c]
       /\ resp' = [resp EXCEPT ![r] = Complete(req[r], c)]
  /\ running' = [running EXCEPT ![r] = FALSE]
  /\ pc' = [pc EXCEPT ![r] = "done"]
  /\ UNCHANGED <<req, script, spawned>>

\* The response is written to the transport; nothing of the call is kept.
Deliver(r) ==
  /\ pc[r] = "done"
  /\ pc' = [pc EXCEPT ![r] = "idle"]
  /\ req' = [req EXCEPT ![r] = NoRequest]
  /\ script' = [script EXCEPT ![r] = <<>>]
  /\ running' = [running EXCEPT ![r] = FALSE]
  /\ spawned' = [spawned EXCEPT ![r] = 0]
  /\ child' = [child EXCEPT ![r] = NoExit]
  /\ resp' = [resp EXCEPT ![r] = NoResponse]

\* A client that waits for each response before it sends the next request.
ClientWaits == \A s \in Slots : pc[s] = "idle"

Next ==
  \/ ClientWaits /\ \E r \in Slots, q \in Requests : ListTools(r, q)
  \/ ClientWaits /\ \E r \in Slots, q \in Requests : CallListCalendars(r, q)
  \/ ClientWaits /\ \E r \in Slots, q \in Requests : CallListEvents(r, q)
  \/ ClientWaits /\ \E r \in Slots, q \in Requests : CallCreateEvent(r, q)
  \/ ClientWaits /\ \E r \in Slots, q \in Requests : CallUpdateEvent(r, q)
  \/ ClientWaits /\ \E r \in Slots, q \in Requests : CallDeleteEvent(r, q)
  \/ ClientWaits /\ \E r \in Slots, q \in Requests : CallUnknownTool(r, q)
  \/ \E r \in Slots : SubprocessExit(r)
  \/ \E r \in Slots : Deliver(r)

Spec == Init /\ [][Next]_vars

\* create_event for every title of at most MaxLen characters over a letter,
\* the backslash and the double quote.
TitleChars == {"a", BS, DQ}

Titles == SeqsUpTo(TitleChars, MaxLen)

NextEscape ==
  \/ ClientWaits
       /\ \E r \in Slots, s \in Titles :
            CallCreateEvent(r, CallTool("create_event",
              [title |-> s, startDate |-> D1, endDate |-> D2]))
  \/ \E r \in Slots : SubprocessExit(r)
  \/ \E r \in Slots : Deliver(r)

SpecEscape == Init /\ [][NextEscape]_vars

\* A client that sends up to MaxPending requests without waiting for the
\* responses: the SDK starts the handler of each request as it arrives.
PipelinedRequests ==
  {CallTool("create_event", [title |-> Plain, startDate |-> D1, endDate |-> D2]),
   CallTool("update_event", [eventSummary |-> Plain, calendarName |-> Work]),
   CallTool("delete_event", [eventSummary |-> Plain, calendarName |-> Work])}

NextPipelined ==
  \/ \E r \in Slots, q \in PipelinedRequests :
       \/ CallCreateEvent(r, q)
       \/ CallUpdateEvent(r, q)
       \/ CallDeleteEvent(r, q)
  \/ \E r \in Slots : SubprocessExit(r)
  \/ \E r \in Slots : Deliver(r)

SpecPipelined == Init /\ [][NextPipelined]_vars

\* =================================================================== claims
Handled(r) == pc[r] = "done"

IsCall(r, name) == req[r].method = "tools/call" /\ req[r].name = name

IsInternalError(response) ==
  response.kind = "error" /\ response.code = "InternalError"

RegisteredNames ==
  {"list_calendars", "list_events", "create_event", "update_event", "delete_event"}

\* C1: a tools/call request whose name is none of the five registered names
\* ends, whatever its arguments, with a MethodNotFound error, never with an
\* InternalError, and starts no subprocess.
C1_UnknownToolMethodNotFound ==
  \A r \in Slots :
    (req[r].method = "tools/call" /\ req[r].name \notin RegisteredNames)
      => /\ Handled(r)
         /\ resp[r].kind = "error"
         /\ resp[r].code = "MethodNotFound"
         /\ spawned[r] = 0

C1_Witness ==
  \E r \in Slots :
    /\ req[r].method = "tools/call" /\ req[r].name = "get_event"
    /\ req[r].hasArgs /\ Has(req[r].args, "eventSummary")
    /\ Handled(r)
    /\ resp[r] = McpError("MethodNotFound", <<"Unknown tool: ", "get_event">>)

UpdateFields == {"newTitle", "startDate", "endDate", "location", "description"}

\* C2: update_event with eventSummary and calendarName and none of the five
\* optional fields starts no subprocess and returns a success result.
C2_UpdateNoFieldsIsNoOp ==
  \A r \in Slots :
    (/\ IsCall(r, "update_event") /\ req[r].hasArgs
     /\ Has(req[r].args, "eventSummary") /\ Has(req[r].args, "calendarName")
     /\ DOMAIN req[r].args \cap UpdateFields = {})
      => /\ Handled(r)
         /\ spawned[r] = 0 /\ ~running[r] /\ script[r] = <<>>
         /\ resp[r].kind = "result"
         /\ resp[r].payload.success = TRUE

C2_Witness ==
  \E r \in Slots :
    /\ IsCall(r, "update_event")
    /\ req[r].args = [eventSummary |-> Plain, calendarName |-> Work]
    /\ Handled(r) /\ spawned[r] = 0
    /\ resp[r].kind = "result" /\ resp[r].payload.success = TRUE

CallerStringSlots ==
  {"title", "calendarName", "eventSummary", "newTitle", "location", "description"}

\* C3: in the script rendered for any operation, every double-quoted literal
\* filled from a caller-supplied string (title, calendarName, eventSummary,
\* newTitle, location, description) holds the escaped form of that string.
C3_AllCallerStringsEscaped ==
  \A r \in Slots :
    \A i \in DOMAIN script[r] :
      LET seg == script[r][i]
      IN (/\ seg.kind = "quoted"
          /\ seg.slot \in CallerStringSlots
          /\ TruthyString(req[r].args, seg.slot))
           => seg.s = escapeForAppleScript(req[r].args[seg.slot])

\* The maximal run of backslashes that ends just before position i.
RECURSIVE BackslashesBefore(_, _)
BackslashesBefore(e, i) ==
  IF i > 1 /\ e[i - 1] = BS THEN 1 + BackslashesBefore(e, i - 1) ELSE 0

\* Every double quote follows an odd-length run of backslashes.
QuotesEscaped(e) ==
  \A i \in 1..Len(e) : e[i] = DQ => BackslashesBefore(e, i) % 2 = 1

\* Every maximal run of backslashes that no quote follows has even length.
BackslashRunsEven(e) ==
  \A i \in 1..Len(e) :
    (e[i] = BS /\ (i = Len(e) \/ e[i + 1] \notin {BS, DQ}))
      => (BackslashesBefore(e, i) + 1) % 2 = 0

\* The position of the quote that closes a literal whose text after the
\* opening quote is t, read as AppleScript reads it (a backslash takes the
\* next character with it); 0 when none closes it.
RECURSIVE ClosingQuote(_, _)
ClosingQuote(t, i) ==
  IF i > Len(t) THEN 0
  ELSE IF t[i] = BS THEN ClosingQuote(t, i + 2)
       ELSE IF t[i] = DQ THEN i
            ELSE ClosingQuote(t, i + 1)

RECURSIVE Unescape(_)
Unescape(e) ==
  IF e = <<>> THEN <<>>
  ELSE IF Head(e) = BS /\ Len(e) >= 2
       THEN <<e[2]>> \o Unescape(SubSeq(e, 3, Len(e)))
       ELSE <<Head(e)>> \o Unescape(Tail(e))

\* The content of the literal that slot filled in a script.
LiteralsOf(scr, slot) ==
  {scr[i].s : i \in {j \in DOMAIN scr : scr[j].kind = "quoted" /\ scr[j].slot = slot}}

\* C4: for every title s the summary literal of the create_event script holds
\* an escaped text in which every quote follows an odd run of backslashes and
\* every other run of backslashes is even; the literal is closed only by its
\* final quote, and un-escaping it gives s.
C4_EscapedLiteralIsSafe ==
  \A r \in Slots :
    (IsCall(r, "create_event") /\ spawned[r] > 0)
      => /\ LiteralsOf(script[r], "title") # {}
         /\ \A e \in LiteralsOf(script[r], "title") :
              /\ QuotesEscaped(e)
              /\ BackslashRunsEven(e)
              /\ ClosingQuote(e \o <<DQ>>, 1) = Len(e) + 1
              /\ Unescape(e) = req[r].args.title

C4_Witness ==
  \E r \in Slots :
    /\ IsCall(r, "create_event") /\ spawned[r] > 0
    /\ req[r].args.title = <<BS, DQ, "a", BS>>
    /\ LiteralsOf(script[r], "title") = {<<BS, BS, BS, DQ, "a", BS, BS>>}

ExpectedErrorText(c) ==
  IF c.stderr # <<>> THEN c.stderr
  ELSE IF c.message # <<>> THEN c.message
       ELSE <<"AppleScript error">>

\* C5: when the subprocess of a call exits non-zero or times out, the call
\* ends with an InternalError whose text is stderr, else the failure message,
\* else the generic text; the subprocess was started once and no result is
\* returned.  delete_event for an event the application does not hold ends so.
C5_SubprocessFailureIsInternalError ==
  \A r \in Slots :
    /\ (Handled(r) /\ child[r].how \in {"nonzero", "timeout"})
         => /\ resp[r] = McpError("InternalError", ExpectedErrorText(child[r]))
            /\ spawned[r] = 1
            /\ ~running[r]
    /\ (Handled(r) /\ IsCall(r, "delete_event") /\ spawned[r] > 0
          /\ ~child[r].app.found)
         => IsInternalError(resp[r])

C5_Witness ==
  \E r \in Slots :
    /\ Handled(r) /\ IsCall(r, "delete_event")
    /\ req[r].args = [eventSummary |-> Plain, calendarName |-> Work]
    /\ child[r] = NotFound
    /\ resp[r] = McpError("InternalError", CantGetText)
    /\ spawned[r] = 1

Range(f) == {f[i] : i \in DOMAIN f}

DeclaredOptional(tool) == {p[1] : p \in tool.properties} \ Range(tool.required)

Occurrences(text, d) ==
  {i \in 1..Len(text) : i + Len(d) - 1 <= Len(text)
                        /\ SubSeq(text, i, i + Len(d) - 1) = d}

RECURSIVE TotalLen(_)
TotalLen(parts) ==
  IF parts = <<>> THEN 0 ELSE Len(Head(parts)) + TotalLen(Tail(parts))

\* Where the separators stand in Join(parts, d).
JoinPoints(parts, d) ==
  {TotalLen(SubSeq(parts, 1, k)) + (k - 1) * Len(d) + 1 : k \in 1..(Len(parts) - 1)}

\* The separator occurs in the joined text only where the join put it.
SeparatorOnlyAtJoins(parts, d) ==
  Occurrences(Join(parts, d), d) = JoinPoints(parts, d)

CalendarReplied(r) ==
  Handled(r) /\ IsCall(r, "list_calendars") /\ child[r].ok

\* C7 as stated: for a reply that is the n calendar names joined by "~~~",
\* list_calendars returns n records in order, the i-th (from 0) being the
\* i-th name with id the decimal string of i.
C7_CalendarsAsEnumerated ==
  \A r \in Slots :
    CalendarReplied(r)
      => LET names == child[r].app.names
         IN resp[r] =
              Result([i \in 1..Len(names) |->
                        [name |-> names[i], id |-> NatString(i - 1)]])

\* C7 amended: provided "~~~" occurs in the reply only at the n-1 joins,
\* list_calendars returns n records in order, the i-th (from 0) being the
\* i-th name with leading and trailing whitespace removed and id the decimal
\* string of i; except that a blank reply (no calendar, or one calendar with a
\* blank name) gives the empty sequence.
C7_CalendarsTrimmed ==
  \A r \in Slots :
    CalendarReplied(r)
      => LET names == child[r].app.names
         IN SeparatorOnlyAtJoins(names, TildeDelim)
              => IF Trim(Join(names, TildeDelim)) = <<>>
                 THEN resp[r] = Result(<<>>)
                 ELSE resp[r] =
                        Result([i \in 1..Len(names) |->
                                  [name |-> Trim(names[i]),
                                   id |-> NatString(i - 1)]])

C7_Witness ==
  \E r \in Slots :
    /\ CalendarReplied(r)
    /\ child[r].app.names = <<Work, Home>>
    /\ resp[r] = Result(<<[name |-> Work, id |-> <<"0">>],
                          [name |-> Home, id |-> <<"1">>]>>)

EventsReplied(r) ==
  Handled(r) /\ IsCall(r, "list_events") /\ child[r].ok

\* C8 as stated: list_events returns one record per event the application
\* serialized, in reply order, with id the record's zero-based position; an
\* empty reply gives a success carrying the empty sequence.
C8_OneRecordPerEvent ==
  \A r \in Slots :
    EventsReplied(r)
      => LET evs == child[r].app.events
         IN /\ resp[r].kind = "result"
            /\ Len(resp[r].payload) = Len(evs)
            /\ \A i \in 1..Len(evs) :
                 /\ resp[r].payload[i].id = NatString(i - 1)
                 /\ resp[r].payload[i].summary = evs[i].summary
            /\ (evs = <<>> => resp[r] = Result(<<>>))

\* C8 amended: provided "~~~" occurs in the reply only between the serialized
\* events, list_events returns one record per event, in reply order, with id
\* the record's zero-based position; an empty reply gives a success carrying
\* the empty sequence.
C8_OneRecordPerEventUnambiguous ==
  \A r \in Slots :
    EventsReplied(r)
      => LET evs == child[r].app.events
             infos == [i \in 1..Len(evs) |-> EventInfo(evs[i])]
         IN SeparatorOnlyAtJoins(infos, TildeDelim)
              => /\ resp[r].kind = "result"
                 /\ Len(resp[r].payload) = Len(evs)
                 /\ \A i \in 1..Len(evs) :
                      /\ resp[r].payload[i].id = NatString(i - 1)
                      /\ resp[r].payload[i].summary = evs[i].summary
                 /\ (evs = <<>> => resp[r] = Result(<<>>))

C8_Witness ==
  \E r \in Slots :
    /\ EventsReplied(r)
    /\ child[r].app.events = <<>>
    /\ child[r].stdout = <<NL>>
    /\ resp[r] = Result(<<>>)

\* C9: every create_event call whose subprocess succeeds returns a success
\* result whose eventId is the title of the request, unchanged.
C9_EventIdIsTitle ==
  \A r \in Slots :
    (Handled(r) /\ IsCall(r, "create_event") /\ child[r].ok)
      => /\ resp[r].kind = "result"
         /\ resp[r].payload.success = TRUE
         /\ resp[r].payload.eventId = req[r].args.title

C9_Witness ==
  \E r \in Slots :
    /\ Handled(r) /\ IsCall(r, "create_event") /\ child[r].ok
    /\ req[r].args.title = WithQuote
    /\ DOMAIN req[r].args =
         {"title", "startDate", "endDate", "calendarName", "isAllDay",
          "location", "description", "alarms"}
    /\ resp[r].payload.eventId = WithQuote
    /\ escapeForAppleScript(WithQuote) # WithQuote

InFlight == {r \in Slots : running[r]}

\* C10 as stated: requests are handled one at a time, so at no time is more
\* than one request suspended in its subprocess call and at no time are two
\* subprocesses in flight.
C10_OneSubprocessAtATime ==
  /\ Cardinality(InFlight) <= 1
  /\ Cardinality({r \in Slots : pc[r] = "awaiting"}) <= 1

\* C10 amended: each request is handled by one task that starts at most one
\* subprocess, is suspended exactly while that subprocess is in flight, and
\* produces its result or error only after the subprocess has exited or timed
\* out; the handling of another request may begin while a request is
\* suspended, so there are at most as many subprocesses in flight as requests
\* being handled.
C10_OneSubprocessPerRequest ==
  /\ \A r \in Slots :
       /\ spawned[r] <= 1
       /\ running[r] <=> pc[r] = "awaiting"
       /\ running[r] => (spawned[r] = 1 /\ req[r].method = "tools/call")
       /\ resp[r].kind # "none" => ~running[r]
  /\ Cardinality(InFlight) <= Cardinality({r \in Slots : pc[r] # "idle"})

C10_Witness ==
  \E r, s \in Slots :
    /\ r # s
    /\ running[r] /\ running[s]
    /\ pc[r] = "awaiting" /\ pc[s] = "awaiting"
    /\ resp[r] = NoResponse /\ resp[s] = NoResponse

\* The property an assignment statement of update_event sets, per field.
AssignedProperty ==
  [newTitle |-> "set summary of targetEvent to ",
   startDate |-> "set start date of targetEvent to date ",
   endDate |-> "set end date of targetEvent to date ",
   location |-> "set location of targetEvent to ",
   description |-> "set description of targetEvent to "]

\* The positions in a rendered script of the literals that an assignment
\* statement for field f assigns.
AssignmentsFor(scr, f) ==
  {i \in DOMAIN scr : /\ i > 1
                      /\ scr[i - 1] = Text(<<NL, AssignedProperty[f]>>)
                      /\ scr[i].kind = "quoted"}

\* Every assignment statement of a rendered script, for whatever field.
AllAssignments(scr) ==
  {i \in DOMAIN scr : /\ i > 1
                      /\ scr[i - 1].kind = "text"
                      /\ scr[i - 1].s \in {<<NL, AssignedProperty[f]>> : f \in UpdateFields}}

FieldOrder == <<"newTitle", "startDate", "endDate", "location", "description">>

UpdateCall(r) ==
  /\ pc[r] # "idle" /\ IsCall(r, "update_event") /\ req[r].hasArgs
  /\ Has(req[r].args, "eventSummary") /\ Has(req[r].args, "calendarName")

\* C11 as stated: for an update_event request (with its two lookup keys), the
\* rendered script holds exactly one assignment statement for every optional
\* field that is supplied, whatever the supplied value, and none for a field
\* that is not supplied; and a subprocess is started whenever at least one
\* optional field is supplied.
C11_OneAssignmentPerSuppliedField ==
  \A r \in Slots :
    UpdateCall(r)
      => /\ \A f \in UpdateFields :
              Cardinality(AssignmentsFor(script[r], f))
                = IF Has(req[r].args, f) THEN 1 ELSE 0
         /\ (DOMAIN req[r].args \cap UpdateFields # {}) => spawned[r] = 1

\* The fields of a request that update_event acts on: newTitle, startDate and
\* endDate when supplied with a non-empty value, location and description
\* when supplied at all (the empty string included).
ActedOn(args) ==
  {f \in {"newTitle"} : Has(args, f) /\ args[f] # <<>>}
    \cup {f \in {"startDate", "endDate"} : Has(args, f) /\ ~args[f].empty}
    \cup {f \in {"location", "description"} : Has(args, f)}

\* The literal an assignment statement for field f holds.
AssignedLiteral(args, f) ==
  IF f \in {"startDate", "endDate"}
  THEN formatDateForAppleScript(args[f])
  ELSE escapeForAppleScript(args[f])

\* C11 amended: for an update_event request (with its two lookup keys), the
\* rendered script holds exactly one assignment statement, carrying the
\* field's value, for each of newTitle, startDate, endDate that is supplied
\* with a non-empty value and for each of location, description that is
\* supplied (empty included); it holds no other assignment statement, the
\* statements come in the order newTitle, startDate, endDate, location,
\* description, and a subprocess is started exactly when at least one such
\* field is acted on; otherwise the call returns success with no subprocess.
C11_OneAssignmentPerActedOnField ==
  \A r \in Slots :
    UpdateCall(r)
      => LET args == req[r].args
             on == ActedOn(args)
         IN /\ \A f \in UpdateFields :
                 LET at == AssignmentsFor(script[r], f)
                 IN /\ Cardinality(at) = IF f \in on THEN 1 ELSE 0
                    /\ \A i \in at : script[r][i] = Quoted(f, AssignedLiteral(args, f))
            /\ Cardinality(AllAssignments(script[r])) = Cardinality(on)
            /\ \A f, g \in on :
                 \A i \in AssignmentsFor(script[r], f), j \in AssignmentsFor(script[r], g) :
                   i < j => \E k, m \in DOMAIN FieldOrder :
                              k < m /\ FieldOrder[k] = f /\ FieldOrder[m] = g
            /\ spawned[r] = (IF on = {} THEN 0 ELSE 1)
            /\ (on = {} => /\ Handled(r) /\ script[r] = <<>>
                           /\ resp[r].kind = "result"
                           /\ resp[r].payload.success = TRUE)

\* An update_event request that supplies an empty newTitle, an empty
\* startDate, an empty location and a description: the script assigns
\* location and description only.
C11_Witness ==
  \E r \in Slots :
    /\ UpdateCall(r) /\ pc[r] = "awaiting"
    /\ Has(req[r].args, "newTitle") /\ req[r].args.newTitle = <<>>
    /\ Has(req[r].args, "startDate") /\ req[r].args.startDate = EmptyDate
    /\ Has(req[r].args, "location") /\ req[r].args.location = <<>>
    /\ Has(req[r].args, "description")
    /\ spawned[r] = 1
    /\ Cardinality(AssignmentsFor(script[r], "newTitle")) = 0
    /\ Cardinality(AssignmentsFor(script[r], "startDate")) = 0
    /\ Cardinality(AssignmentsFor(script[r], "location")) = 1
    /\ Cardinality(AssignmentsFor(script[r], "description")) = 1

\* All five fields supplied with non-empty values: five assignments.
C11_WitnessAllFields ==
  \E r \in Slots :
    /\ UpdateCall(r) /\ pc[r] = "awaiting"
    /\ ActedOn(req[r].args) = UpdateFields
    /\ Cardinality(AllAssignments(script[r])) = 5

\* Only an empty newTitle supplied: success without a subprocess.
C11_WitnessEmptyTitleOnly ==
  \E r \in Slots :
    /\ UpdateCall(r) /\ Handled(r)
    /\ DOMAIN req[r].args = {"eventSummary", "calendarName", "newTitle"}
    /\ req[r].args.newTitle = <<>>
    /\ spawned[r] = 0 /\ resp[r].kind = "result"

=============================================================================
